---- MODULE Spec2Model ----
(***************************************************************************)
(* A model of src/app.py: the fetcher safe_request, the scoring function   *)
(* get_confidence_score, the signature catalog, and detect_platform.       *)
(*                                                                         *)
(* detect_platform is modelled in two parts.                               *)
(*   - Spec is the path the function takes: fetch, parse, the platform     *)
(*     loop of lines 381-399 (whose rule evaluation is the placeholder     *)
(*     "Platform-specific detection logic here...", so matches stays 0),   *)
(*     the sort and the return of lines 401-407.  Any exception that the   *)
(*     fetch handlers do not name ends in the handler of lines 409-410.    *)
(*   - SpecTail is the block of lines 412-509, which holds the rule        *)
(*     evaluation, the bonuses, the sort and the header entries.  In the   *)
(*     file it follows the return of line 410 inside the same handler, so  *)
(*     no call of detect_platform runs it; it is modelled as written, on   *)
(*     inputs drawn from bounded sets, because it is the only code of the  *)
(*     repository that scores a platform.                                  *)
(*                                                                         *)
(* clean_url is a pure function; SpecUrl applies it to every input of a    *)
(* bounded set of strings.                                                 *)
(*                                                                         *)
(* Numbers: matches is counted in halves (the code adds 0.5), confidence   *)
(* in tenths of a percent (the code rounds to one decimal).                *)
(***************************************************************************)
EXTENDS Integers, Sequences, FiniteSets, TLC

VARIABLES
    pc,                 \* position in detect_platform / safe_request
    url,                \* the argument of detect_platform
    attempt,            \* safe_request: the loop variable of line 49
    requests,           \* history: every session.get made, in order
    response,           \* safe_request's return value, NoResponse before
    raised,             \* the exception that left safe_request, "none" if none
    soup,               \* the parsed document: what find_all returns per rule
    headers,            \* response.headers
    script_content,     \* platforms whose js_objects tokens the inline scripts hold
    texts,              \* platform names the url and the title or meta hold (tail only)
    additional_signals, \* get_additional_checks' result
    i,                  \* index of the platform the loop is at
    detected_platforms, \* the list being built
    caught,             \* history: the exceptions a handler caught and passed over
    report,             \* the value detect_platform returned, <<>> before
    text_input,         \* the page: the text typed into the URL box, as characters
    cleaned_url         \* the page: clean_url's result, NotCleaned before the call

vars == <<pc, url, attempt, requests, response, raised, soup, headers,
          script_content, texts, additional_signals, i, detected_platforms,
          caught, report, text_input, cleaned_url>>

(***************************************************************************)
(* Values                                                                  *)
(***************************************************************************)

\* safe_request(url, timeout=10, max_retries=2): detect_platform passes no
\* max_retries, so every run uses the default.
max_retries == 2

\* Status codes a server answers with, one per class raise_for_status tells apart.
Statuses == {200, 404, 500}

\* requests' exceptions that session.get raises.  SSLError is a subclass of
\* ConnectionError; the handler of line 67 comes first and takes it.
TransientErrors == {"ConnectionError", "Timeout"}
OtherRequestErrors == {"TooManyRedirects", "RequestException"}
RequestErrors == {"SSLError"} \cup TransientErrors \cup OtherRequestErrors

NoResponse == [status |-> 0, html |-> FALSE, verify |-> TRUE]

\* Response.__bool__ is Response.ok: false for None and for a status >= 400.
Truthy(r) == r # NoResponse /\ r.status < 400

\* str.lower() on the strings of the model.
Lower(s) ==
    CASE s = "WordPress" -> "wordpress"
      [] s = "Webflow"   -> "webflow"
      [] s = "PHP/8.1"   -> "php/8.1"
      [] s = "Nginx"     -> "nginx"
      [] OTHER           -> s

(***************************************************************************)
(* The signature catalog, lines 150-329.  The model keeps three of the 41  *)
(* entries of the literal: 'WordPress' (line 153), and both entries keyed  *)
(* 'Webflow' (lines 220 and 297).  A rule is named by its tag and          *)
(* attribute.                                                              *)
(***************************************************************************)
SignatureLiteral ==
    << [platform |-> "WordPress",
        checks |-> <<"meta.generator=WordPress", "link.rel=pingback",
                     "script.src=wp-", "link.href=/wp-content/">>],
       [platform |-> "Webflow",
        checks |-> <<"html.data-wf-site", "script.src=webflow.com",
                     "meta.generator=Webflow">>],
       [platform |-> "Webflow",
        checks |-> <<"meta.generator=Webflow", "html.data-wf-site">>] >>

RECURSIVE IndexOfKey(_, _, _)
IndexOfKey(d, key, k) ==
    IF k > Len(d) THEN 0
    ELSE IF d[k].platform = key THEN k
    ELSE IndexOfKey(d, key, k + 1)

\* A dict display: a key given again keeps its first position and takes the
\* later value.
RECURSIVE DictDisplay(_, _, _)
DictDisplay(items, k, d) ==
    IF k > Len(items) THEN d
    ELSE LET at == IndexOfKey(d, items[k].platform, 1)
         IN  DictDisplay(items, k + 1,
                         IF at = 0 THEN Append(d, items[k])
                         ELSE [d EXCEPT ![at] = items[k]])

\* A catalog read as a list of pairs: both 'Webflow' entries stay.
get_platform_signatures_pairs == SignatureLiteral

\* signatures.items(), in iteration order.
get_platform_signatures == DictDisplay(SignatureLiteral, 1, <<>>)

PlatformNames == {SignatureLiteral[k].platform : k \in DOMAIN SignatureLiteral}

\* Every rule some entry of signatures.items() evaluates.
Rules ==
    UNION {{get_platform_signatures[k].checks[j] :
                j \in DOMAIN get_platform_signatures[k].checks} :
           k \in DOMAIN get_platform_signatures}

\* len(soup.find_all(tag, attrs)) as the code reads it: no element, exactly
\* one, more than one (lines 445 and 448).
ElementCounts == {0, 1, 2}

\* The documents: how many elements each rule finds.
Soups == [Rules -> ElementCounts]
EmptySoup == [r \in Rules |-> 0]

\* response.headers: Server, X-Powered-By, and the names of the other headers.
HeaderCases ==
    { [Server |-> "", XPoweredBy |-> "", others |-> {}],
      [Server |-> "Nginx", XPoweredBy |-> "", others |-> {}],
      [Server |-> "", XPoweredBy |-> "PHP/8.1", others |-> {}],
      [Server |-> "Nginx", XPoweredBy |-> "PHP/8.1", others |-> {}],
      [Server |-> "", XPoweredBy |-> "", others |-> {"x-wordpress-cache"}] }
NoHeaders == [Server |-> "", XPoweredBy |-> "", others |-> {}]

\* js_objects, lines 137-142, cut to the platforms of the model's catalog.
js_objects == {"WordPress"}

(***************************************************************************)
(* get_confidence_score, lines 331-335.  matches is in halves; the result  *)
(* is the exact fraction num/den of (matches / total_checks) * 100.        *)
(***************************************************************************)
get_confidence_score(matches, total_checks) ==
    IF total_checks = 0 THEN [num |-> 0, den |-> 1]
    ELSE [num |-> matches * 100, den |-> 2 * total_checks]

\* confidence >= 30, lines 391 and 476.
AtLeast(c, percent) == c.num >= percent * c.den

\* round(confidence, 1), in tenths.  No value of the model lies halfway
\* between two tenths, so the rounding mode does not show.
Round1(c) == (2 * 10 * c.num + c.den) \div (2 * c.den)

(***************************************************************************)
(* list.sort(key=lambda x: x['confidence'], reverse=True): stable, equal   *)
(* keys keep their order.                                                  *)
(***************************************************************************)
RECURSIVE InsertByConfidence(_, _, _)
InsertByConfidence(e, sorted, k) ==
    IF k > Len(sorted) THEN Append(sorted, e)
    ELSE IF sorted[k].confidence < e.confidence
         THEN SubSeq(sorted, 1, k - 1) \o <<e>> \o SubSeq(sorted, k, Len(sorted))
         ELSE InsertByConfidence(e, sorted, k + 1)

RECURSIVE SortFrom(_, _, _)
SortFrom(list, k, sorted) ==
    IF k > Len(list) THEN sorted
    ELSE SortFrom(list, k + 1, InsertByConfidence(list[k], sorted, 1))

\* A sort that leaves the list as it is.
SortByConfidenceDesc_none(list) == list

SortByConfidenceDesc(list) == SortFrom(list, 1, <<>>)

(***************************************************************************)
(* safe_request, lines 37-87                                               *)
(***************************************************************************)

Request(verify, outcome, status, html) ==
    [attempt |-> attempt, verify |-> verify, outcome |-> outcome,
     status |-> status, html |-> html]

\* An exception leaves safe_request.
Raise(e) ==
    /\ raised' = e
    /\ pc' = "raised"
    /\ UNCHANGED <<attempt, response, headers>>

\* safe_request returns r; the response carries its headers.
Return(r, h) ==
    /\ response' = r
    /\ headers' = h
    /\ pc' = "returned"
    /\ UNCHANGED <<attempt, raised>>

\* Lines 51-65: the verified request answers.  The content type is checked
\* before the status; neither ValueError nor HTTPError is caught here.
GetResponse ==
    /\ pc = "get"
    /\ \E status \in Statuses, html \in BOOLEAN, h \in HeaderCases :
          /\ requests' = Append(requests, Request(TRUE, "response", status, html))
          /\ IF ~html THEN Raise("ValueError")
             ELSE IF status >= 400 THEN Raise("HTTPError")
             ELSE Return([status |-> status, html |-> html, verify |-> TRUE], h)
    /\ UNCHANGED <<caught, text_input, cleaned_url, url, soup, script_content, texts, additional_signals, i,
                   detected_platforms, report>>

\* The handler of line 67 without its fallback request.
GetSSLError_no_fallback ==
    /\ pc = "get"
    /\ requests' = Append(requests, Request(TRUE, "SSLError", 0, FALSE))
    /\ Raise("SSLError")
    /\ UNCHANGED <<caught, text_input, cleaned_url, url, soup, script_content, texts, additional_signals, i,
                   detected_platforms, report>>

\* Lines 67-79: the verified request fails TLS verification.
GetSSLError ==
    /\ pc = "get"
    /\ requests' = Append(requests, Request(TRUE, "SSLError", 0, FALSE))
    /\ IF attempt = 0
       THEN /\ pc' = "get_unverified"
            /\ UNCHANGED <<attempt, response, headers, raised>>
       ELSE Raise("SSLError")
    /\ UNCHANGED <<caught, text_input, cleaned_url, url, soup, script_content, texts, additional_signals, i,
                   detected_platforms, report>>

\* Line 85, time.sleep(1): the module imports streamlit, requests,
\* BeautifulSoup, urlparse and re (lines 1-5) and never time, so the call
\* raises NameError from inside the handler.
time_sleep == Raise("NameError")

\* Lines 81-85: a connection error or a timeout of the verified request.
GetTransientError ==
    /\ pc = "get"
    /\ \E e \in TransientErrors :
          /\ requests' = Append(requests, Request(TRUE, e, 0, FALSE))
          /\ IF attempt = max_retries - 1 THEN Raise(e) ELSE time_sleep
    /\ UNCHANGED <<caught, text_input, cleaned_url, url, soup, script_content, texts, additional_signals, i,
                   detected_platforms, report>>

\* Any other exception of the verified request: no handler of safe_request
\* names it.
GetOtherError ==
    /\ pc = "get"
    /\ \E e \in OtherRequestErrors :
          /\ requests' = Append(requests, Request(TRUE, e, 0, FALSE))
          /\ Raise(e)
    /\ UNCHANGED <<caught, text_input, cleaned_url, url, soup, script_content, texts, additional_signals, i,
                   detected_platforms, report>>

\* Lines 70-78: the request with verify=False answers.  Only the status is
\* checked.
UnverifiedResponse ==
    /\ pc = "get_unverified"
    /\ \E status \in Statuses, html \in BOOLEAN, h \in HeaderCases :
          /\ requests' = Append(requests, Request(FALSE, "response", status, html))
          /\ IF status >= 400 THEN Raise("HTTPError")
             ELSE Return([status |-> status, html |-> html, verify |-> FALSE], h)
    /\ UNCHANGED <<caught, text_input, cleaned_url, url, soup, script_content, texts, additional_signals, i,
                   detected_platforms, report>>

\* Lines 70-76: the request with verify=False raises; it stands inside the
\* handler, so nothing of safe_request catches it.
UnverifiedError ==
    /\ pc = "get_unverified"
    /\ \E e \in RequestErrors :
          /\ requests' = Append(requests, Request(FALSE, e, 0, FALSE))
          /\ Raise(e)
    /\ UNCHANGED <<caught, text_input, cleaned_url, url, soup, script_content, texts, additional_signals, i,
                   detected_platforms, report>>

(***************************************************************************)
(* detect_platform, lines 337-410                                          *)
(***************************************************************************)

Entry(platform, confidence) == [platform |-> platform, confidence |-> confidence]

\* The labels of lines 342-373 and 410; str(e) is the exception's name here.
ErrorLabel(e) ==
    CASE e = "SSLError"         -> "Error: SSL Certificate verification failed"
      [] e = "ConnectionError"  -> "Error: Could not connect to website"
      [] e = "Timeout"          -> "Error: Request timed out"
      [] e = "TooManyRedirects" -> "Error: Too many redirects"
      [] e = "HTTPError"        -> "Error: HTTPError"
      [] e = "RequestException" -> "Error: RequestException"
      [] e = "ValueError"       -> "Error: Invalid content type"
      [] OTHER                  -> "Error: Unexpected error occurred - " \o e

ErrorLabels ==
    {ErrorLabel(e) : e \in RequestErrors \cup {"HTTPError", "ValueError", "NameError"}}
    \cup {"Error: No URL provided", "Error: Could not parse website content",
          "Error: No content found"}

\* Lines 341-346.
Start ==
    /\ pc = "start"
    /\ IF url = ""
       THEN /\ report' = <<Entry("Error: No URL provided", 0)>>
            /\ pc' = "done"
       ELSE /\ pc' = "get"
            /\ UNCHANGED report
    /\ UNCHANGED <<caught, text_input, cleaned_url, url, attempt, requests, response, raised, soup, headers,
                   script_content, texts, additional_signals, i,
                   detected_platforms>>

NoPlatformDetected == <<Entry("No platform detected", 0)>>

\* A handler that notes the error and lets the detection's result follow it.
FetchFailureReport_mixed(e) == <<Entry(ErrorLabel(e), 0)>> \o NoPlatformDetected

\* Lines 349-360, and 409-410 for what they do not name.
FetchFailureReport(e) == <<Entry(ErrorLabel(e), 0)>>

HandleFetchError ==
    /\ pc = "raised"
    /\ report' = FetchFailureReport(raised)
    /\ pc' = "done"
    /\ UNCHANGED <<caught, text_input, cleaned_url, url, attempt, requests, response, raised, soup, headers,
                   script_content, texts, additional_signals, i,
                   detected_platforms>>

\* Lines 347-348 and 362-373: the falsy response, then the parse.  The
\* parser's result is drawn here: it fails, finds no tag, or yields a document.
Parse ==
    /\ pc = "returned"
    /\ IF ~Truthy(response)
       THEN /\ report' = <<Entry("Error: Could not connect to website", 0)>>
            /\ pc' = "done"
            /\ UNCHANGED <<soup, script_content>>
       ELSE \/ /\ report' = <<Entry("Error: Could not parse website content", 0)>>
               /\ pc' = "done"
               /\ UNCHANGED <<soup, script_content>>
            \/ /\ report' = <<Entry("Error: No content found", 0)>>
               /\ pc' = "done"
               /\ UNCHANGED <<soup, script_content>>
            \/ /\ \E s \in Soups, sc \in SUBSET js_objects :
                     soup' = s /\ script_content' = sc
               /\ pc' = "checks"
               /\ UNCHANGED report
    /\ UNCHANGED <<caught, text_input, cleaned_url, url, attempt, requests, response, raised, headers, texts,
                   additional_signals, i, detected_platforms>>

\* Line 122.
admin_paths == <<"/wp-admin", "/administrator", "/admin", "/backend">>

\* Lines 125-128, the try body for one path: "hit" for a 200 or 302, "miss"
\* for another status, else the exception raised.  urljoin is not imported
\* either (line 4 imports urlparse alone), so line 125 raises NameError
\* before any request is made.
AdminProbe(path) == "NameError"

IsException(outcome) == outcome \notin {"hit", "miss"}

\* A handler that lets the exception go on.
ProbeHandler_reraise(e) == "raise"

\* Lines 129-130: except: pass.
ProbeHandler(e) == "pass"

\* An exception of a probe leaves get_additional_checks.
ProbeEscapes ==
    \E k \in DOMAIN admin_paths :
        /\ IsException(AdminProbe(admin_paths[k]))
        /\ ProbeHandler(AdminProbe(admin_paths[k])) = "raise"

Caught(where, e) == [where |-> where, exception |-> e]

\* The exceptions the handler of lines 129-130 passes over, in order.
RECURSIVE CaughtProbes(_)
CaughtProbes(k) ==
    IF k > Len(admin_paths) THEN <<>>
    ELSE (IF IsException(AdminProbe(admin_paths[k]))
          THEN <<Caught("admin_path_" \o admin_paths[k], AdminProbe(admin_paths[k]))>>
          ELSE <<>>)
         \o CaughtProbes(k + 1)

\* get_additional_checks, lines 117-148: the admin paths that answered, and
\* the platforms whose tokens the inline scripts hold.
get_additional_checks(scripts) ==
    {"admin_path_" \o admin_paths[k] :
        k \in {j \in DOMAIN admin_paths : AdminProbe(admin_paths[j]) = "hit"}}
    \cup {p \o "_js" : p \in scripts}

\* Line 377.  An exception that leaves get_additional_checks is inside the
\* try of line 375 and ends in the handler of lines 409-410.
GetAdditionalChecks ==
    /\ pc = "checks"
    /\ IF ProbeEscapes
       THEN /\ report' = <<Entry(ErrorLabel("NameError"), 0)>>
            /\ pc' = "done"
            /\ UNCHANGED <<additional_signals, i, caught>>
       ELSE /\ additional_signals' = get_additional_checks(script_content)
            /\ caught' = caught \o CaughtProbes(1)
            /\ i' = 1
            /\ pc' = "score"
            /\ UNCHANGED report
    /\ UNCHANGED <<text_input, cleaned_url, url, attempt, requests, response, raised, soup, headers,
                   script_content, texts, detected_platforms>>

\* Lines 383-386: matches = 0, and in place of the rule evaluation the
\* comment "Platform-specific detection logic here...".
LoopMatches(platform, checks) == 0

\* Lines 383-395, the try body of one turn: "none", or the exception it
\* raises.  An assignment, len() of a list and a comparison raise nothing.
LoopRaises(platform, checks) == "none"

\* Lines 381-399: one turn of the loop, with the handler of lines 396-399.
ScorePlatform ==
    /\ pc = "score"
    /\ i <= Len(get_platform_signatures)
    /\ LET platform == get_platform_signatures[i].platform
           checks == get_platform_signatures[i].checks
           matches == LoopMatches(platform, checks)
           total_checks == Len(checks)
           confidence == get_confidence_score(matches, total_checks)
       IN  IF LoopRaises(platform, checks) # "none"
           THEN /\ caught' = Append(caught, Caught(platform, LoopRaises(platform, checks)))
                /\ UNCHANGED detected_platforms
           ELSE /\ detected_platforms' =
                      IF matches > 0 /\ AtLeast(confidence, 30)
                      THEN Append(detected_platforms,
                                  Entry(platform, Round1(confidence)))
                      ELSE detected_platforms
                /\ UNCHANGED caught
    /\ i' = i + 1
    /\ UNCHANGED <<pc, text_input, cleaned_url, url, attempt, requests, response, raised, soup, headers,
                   script_content, texts, additional_signals, report>>

\* A return that hands the empty list on.
ReturnValue_empty(detected) == detected

\* Lines 404-407.
ReturnValue(detected) == IF detected # <<>> THEN detected ELSE NoPlatformDetected

\* Lines 401-407.
SortAndReturn ==
    /\ pc = "score"
    /\ i > Len(get_platform_signatures)
    /\ detected_platforms' = SortByConfidenceDesc(detected_platforms)
    /\ report' = ReturnValue(detected_platforms')
    /\ pc' = "done"
    /\ UNCHANGED <<caught, text_input, cleaned_url, url, attempt, requests, response, raised, soup, headers,
                   script_content, texts, additional_signals, i>>

(***************************************************************************)
(* clean_url, lines 7-35.  A string is a sequence of one-character         *)
(* strings, so that strip, startswith, rstrip and urlparse are computed    *)
(* character by character.                                                 *)
(***************************************************************************)

\* What clean_url returns for a rejected input; no string of characters.
None == <<"None">>

\* The value of cleaned_url before clean_url has been called.
NotCleaned == <<"not called">>

Http == <<"h", "t", "t", "p", ":", "/", "/">>
Https == <<"h", "t", "t", "p", "s", ":", "/", "/">>

\* The characters of the model: a letter of a host name, the dot, the slash,
\* the blank and the colon, and the letters of the two scheme prefixes.
UrlChars == {"a", ".", "/", " ", ":"}
Letters == {"a", "h", "p", "s", "t"}
Whitespace == {" "}

\* urllib.parse: the characters a scheme may hold.
scheme_chars == Letters \cup {"."}

\* str.lstrip(chars), str.rstrip(chars), str.strip().
RECURSIVE lstrip(_, _)
lstrip(s, chars) ==
    IF s # <<>> /\ s[1] \in chars THEN lstrip(Tail(s), chars) ELSE s

RECURSIVE rstrip(_, _)
rstrip(s, chars) ==
    IF s # <<>> /\ s[Len(s)] \in chars
    THEN rstrip(SubSeq(s, 1, Len(s) - 1), chars)
    ELSE s

strip(s) == rstrip(lstrip(s, Whitespace), Whitespace)

startswith(s, prefix) ==
    Len(s) >= Len(prefix) /\ SubSeq(s, 1, Len(prefix)) = prefix

\* str.find for a set of characters: the first index holding one, 0 if none.
Find(s, chars) ==
    IF \E k \in DOMAIN s : s[k] \in chars
    THEN CHOOSE k \in DOMAIN s :
            /\ s[k] \in chars
            /\ \A j \in 1..(k - 1) : s[j] \notin chars
    ELSE 0

\* urlparse(url), line 24: the scheme is what precedes the first colon when
\* it starts with a letter and holds scheme characters only; the netloc is
\* what follows "//" up to the next "/", "?" or "#".
urlparse(u) ==
    LET colon == Find(u, {":"})
        has_scheme == /\ colon > 1
                      /\ u[1] \in Letters
                      /\ \A k \in 1..(colon - 1) : u[k] \in scheme_chars
        scheme == IF has_scheme THEN SubSeq(u, 1, colon - 1) ELSE <<>>
        rest == IF has_scheme THEN SubSeq(u, colon + 1, Len(u)) ELSE u
        after == SubSeq(rest, 3, Len(rest))
        delim == Find(after, {"/", "?", "#"})
        netloc == IF startswith(rest, <<"/", "/">>)
                  THEN IF delim = 0 THEN after ELSE SubSeq(after, 1, delim - 1)
                  ELSE <<>>
    IN  [scheme |-> scheme, netloc |-> netloc]

\* '.' in s
HasDot(s) == \E k \in DOMAIN s : s[k] = "."

\* s.split('.')[-1]
LastLabel(s) ==
    IF HasDot(s)
    THEN LET last == CHOOSE k \in DOMAIN s :
                        s[k] = "." /\ \A j \in (k + 1)..Len(s) : s[j] # "."
         IN  SubSeq(s, last + 1, Len(s))
    ELSE s

\* Lines 16-18.
AddScheme(u) ==
    IF ~(startswith(u, Http) \/ startswith(u, Https)) THEN Https \o u ELSE u

\* Line 21.
RemoveTrailingSlashes(u) == rstrip(u, {"/"})

\* Lines 28-30, the test on the netloc.
ValidDomain(netloc) == HasDot(netloc) /\ Len(LastLabel(netloc)) >= 2

\* Lines 7-35.  No character of UrlChars makes urlparse raise, so the
\* handler of lines 34-35 has no case here.
clean_url(u) ==
    IF u = <<>>
    THEN None
    ELSE LET cleaned == RemoveTrailingSlashes(AddScheme(strip(u)))
             parsed == urlparse(cleaned)
         IN  IF parsed.scheme = <<>> \/ parsed.netloc = <<>>
             THEN None
             ELSE IF ~ValidDomain(parsed.netloc)
                  THEN None
                  ELSE cleaned

NoTexts == [url |-> {}, title |-> {}]

Init ==
    /\ pc = "start"
    /\ url \in {"", "https://example.com"}
    /\ attempt = 0
    /\ requests = <<>>
    /\ response = NoResponse
    /\ raised = "none"
    /\ soup = EmptySoup
    /\ headers = NoHeaders
    /\ script_content = {}
    /\ texts = NoTexts
    /\ additional_signals = {}
    /\ i = 0
    /\ detected_platforms = <<>>
    /\ caught = <<>>
    /\ report = <<>>
    /\ text_input = <<>>
    /\ cleaned_url = NotCleaned

Next ==
    \/ Start
    \/ GetTransientError
    \/ GetSSLError
    \/ GetResponse
    \/ GetOtherError
    \/ UnverifiedResponse
    \/ UnverifiedError
    \/ HandleFetchError
    \/ Parse
    \/ GetAdditionalChecks
    \/ ScorePlatform
    \/ SortAndReturn

Spec == Init /\ [][Next]_vars

(***************************************************************************)
(* The block of lines 412-509, as written.                                 *)
(***************************************************************************)

\* How many names the url and the title or meta description hold together.
MaxTextHits == 1

TextCases ==
    {t \in [url : SUBSET {Lower(p) : p \in PlatformNames},
            title : SUBSET {Lower(p) : p \in PlatformNames}] :
        Cardinality(t.url) + Cardinality(t.title) <= MaxTextHits}

\* Lines 432-437: urljoin is not imported, so line 433 raises NameError
\* inside the try and the bare except leaves robots_content empty.
robots_content == {}

Entry4(platform, confidence, matches, total_checks) ==
    [platform |-> platform, confidence |-> confidence, matches |-> matches,
     total_checks |-> total_checks]

\* Lines 443-449: the rules, 1 for a rule that finds an element and 0.5 more
\* when it finds several.  In halves.
RECURSIVE BaseMatches(_, _, _)
BaseMatches(s, checks, k) ==
    IF k > Len(checks) THEN 0
    ELSE (IF s[checks[k]] > 0 THEN 2 ELSE 0)
         + (IF s[checks[k]] > 1 THEN 1 ELSE 0)
         + BaseMatches(s, checks, k + 1)

\* Lines 451-471: the signals that name the platform.  In halves.
BonusMatches(platform) ==
    (IF (platform \o "_js") \in additional_signals THEN 4 ELSE 0)
    + (IF Lower(platform) \in texts.url THEN 2 ELSE 0)
    + (IF Lower(platform) \in texts.title THEN 2 ELSE 0)
    + (IF Lower(platform) \in robots_content THEN 2 ELSE 0)
    + (IF ("admin_path_" \o Lower(platform)) \in additional_signals THEN 4 ELSE 0)

TailMatches(platform, checks) == BaseMatches(soup, checks, 1) + BonusMatches(platform)

\* Lines 413-437: the headers are read at line 413, the signals at line 421.
TailStart ==
    /\ pc = "tail"
    /\ additional_signals' = get_additional_checks(script_content)
    /\ caught' = caught \o CaughtProbes(1) \o <<Caught("robots.txt", "NameError")>>
    /\ detected_platforms' = <<>>
    /\ i' = 1
    /\ pc' = "tail_score"
    /\ UNCHANGED <<text_input, cleaned_url, url, attempt, requests, response, raised, soup, headers,
                   script_content, texts, report>>

\* Lines 438-482: one turn of the loop.
TailScore ==
    /\ pc = "tail_score"
    /\ i <= Len(get_platform_signatures)
    /\ LET platform == get_platform_signatures[i].platform
           checks == get_platform_signatures[i].checks
           matches == TailMatches(platform, checks)
           total_checks == Len(checks)
           confidence == get_confidence_score(matches, total_checks)
       IN  detected_platforms' =
               IF matches > 0 /\ AtLeast(confidence, 30)
               THEN Append(detected_platforms,
                           Entry4(platform, Round1(confidence), matches, total_checks))
               ELSE detected_platforms
    /\ i' = i + 1
    /\ UNCHANGED <<pc, caught, text_input, cleaned_url, url, attempt, requests, response, raised, soup, headers,
                   script_content, texts, additional_signals, report>>

\* Lines 484-485.
TailSort ==
    /\ pc = "tail_score"
    /\ i > Len(get_platform_signatures)
    /\ detected_platforms' = SortByConfidenceDesc(detected_platforms)
    /\ pc' = "tail_headers"
    /\ UNCHANGED <<caught, text_input, cleaned_url, url, attempt, requests, response, raised, soup, headers,
                   script_content, texts, additional_signals, i, report>>

\* Lines 488-502, with server and poweredBy of lines 413-414.
HeaderEntries(h) ==
    LET server == Lower(h.Server)
        poweredBy == Lower(h.XPoweredBy)
    IN  (IF server # "" THEN <<Entry4("Server: " \o server, 1000, 2, 1)>> ELSE <<>>)
        \o (IF poweredBy # ""
            THEN <<Entry4("Powered By: " \o poweredBy, 1000, 2, 1)>> ELSE <<>>)

TailHeaders ==
    /\ pc = "tail_headers"
    /\ detected_platforms' = detected_platforms \o HeaderEntries(headers)
    /\ pc' = "tail_return"
    /\ UNCHANGED <<caught, text_input, cleaned_url, url, attempt, requests, response, raised, soup, headers,
                   script_content, texts, additional_signals, i, report>>

\* Lines 504-509.
TailReturn ==
    /\ pc = "tail_return"
    /\ report' = IF detected_platforms # <<>> THEN detected_platforms
                 ELSE <<Entry4("Unable to determine platform", 0, 0, 1)>>
    /\ pc' = "done"
    /\ UNCHANGED <<caught, text_input, cleaned_url, url, attempt, requests, response, raised, soup, headers,
                   script_content, texts, additional_signals, i,
                   detected_platforms>>

\* The block's inputs: a response that safe_request returned and its parse.
InitTail ==
    /\ pc = "tail"
    /\ url = "https://example.com"
    /\ attempt = 0
    /\ requests = <<[attempt |-> 0, verify |-> TRUE, outcome |-> "response",
                     status |-> 200, html |-> TRUE]>>
    /\ response = [status |-> 200, html |-> TRUE, verify |-> TRUE]
    /\ raised = "none"
    /\ soup \in Soups
    /\ headers \in HeaderCases
    /\ script_content \in SUBSET js_objects
    /\ texts \in TextCases
    /\ additional_signals = {}
    /\ i = 0
    /\ detected_platforms = <<>>
    /\ caught = <<>>
    /\ report = <<>>
    /\ text_input = <<>>
    /\ cleaned_url = NotCleaned

NextTail ==
    \/ TailStart
    \/ TailScore
    \/ TailSort
    \/ TailHeaders
    \/ TailReturn

SpecTail == InitTail /\ [][NextTail]_vars

(***************************************************************************)
(* clean_url on bounded inputs: every string of at most MaxUrlLen          *)
(* characters of UrlChars, alone or behind one of the scheme prefixes.     *)
(***************************************************************************)

MaxUrlLen == 4

TextInputs ==
    {prefix \o body : prefix \in {<<>>, Http, Https},
                      body \in UNION {[1..n -> UrlChars] : n \in 0..MaxUrlLen}}

\* Lines 7-35: the call and its return.
CleanUrl ==
    /\ pc = "input"
    /\ cleaned_url' = clean_url(text_input)
    /\ pc' = "cleaned"
    /\ UNCHANGED <<text_input, url, attempt, requests, response, raised, soup,
                   headers, script_content, texts, additional_signals, i,
                   detected_platforms, caught, report>>

InitUrl ==
    /\ pc = "input"
    /\ text_input \in TextInputs
    /\ cleaned_url = NotCleaned
    /\ url = ""
    /\ attempt = 0
    /\ requests = <<>>
    /\ response = NoResponse
    /\ raised = "none"
    /\ soup = EmptySoup
    /\ headers = NoHeaders
    /\ script_content = {}
    /\ texts = NoTexts
    /\ additional_signals = {}
    /\ i = 0
    /\ detected_platforms = <<>>
    /\ caught = <<>>
    /\ report = <<>>

NextUrl == CleanUrl

SpecUrl == InitUrl /\ [][NextUrl]_vars

(***************************************************************************)
(* Properties                                                              *)
(***************************************************************************)

Done == pc = "done"

\* detect_platform went through fetch, parse and the platform loop.
Detected == Done /\ i > Len(get_platform_signatures)

\* safe_request has returned or raised.
SafeRequestEnded == pc \notin {"start", "get", "get_unverified"} /\ requests # <<>>

InReport(p) == \E k \in DOMAIN report : report[k].platform = p

Present(p, confidence) ==
    \E k \in DOMAIN report :
        report[k].platform = p /\ report[k].confidence = confidence

UnverifiedRequests == {k \in DOMAIN requests : ~requests[k].verify}

\* C1: when the fetch of detect_platform fails, the report is exactly one
\* entry, of confidence 0, with an error label, and nothing of it comes from
\* scoring.
C1_FetchFailureIsOneErrorEntry ==
    (Done /\ raised # "none") =>
        /\ Len(report) = 1
        /\ report[1].confidence = 0
        /\ report[1].platform \in ErrorLabels
        /\ detected_platforms = <<>>
        /\ \A p \in PlatformNames : ~InReport(p)

\* C1's case: the TLS fallback request was made and failed, and the report
\* is out.
C1_Witness ==
    /\ Done
    /\ raised = "Timeout"
    /\ Len(requests) = 2
    /\ report = <<Entry("Error: Request timed out", 0)>>

\* C2: a run of safe_request in which a request fails TLS verification makes
\* exactly one request with verification disabled before it ends, and no
\* run makes more than one.
C2_OneUnverifiedRequestAfterSSLError ==
    /\ Cardinality(UnverifiedRequests) <= 1
    /\ (SafeRequestEnded /\ \E k \in DOMAIN requests : requests[k].outcome = "SSLError")
          => Cardinality(UnverifiedRequests) = 1

\* C2's case: the verified request failed TLS verification, the unverified
\* one answered, and safe_request returned its response.
C2_Witness ==
    /\ pc = "returned"
    /\ requests[1].outcome = "SSLError"
    /\ ~response.verify
    /\ Cardinality(UnverifiedRequests) = 1

TransientFailure(r) ==
    \/ r.outcome \in TransientErrors
    \/ r.outcome = "response" /\ r.status >= 500

\* C3: in safe_request a transient failure (5xx, connection error, timeout)
\* on an attempt that is not the last is followed by a further attempt, a
\* 4xx response ends the run at once, and there are never more attempts than
\* max_retries.
C3_TransientFailureIsRetried ==
    /\ Cardinality({k \in DOMAIN requests : requests[k].verify}) <= max_retries
    /\ SafeRequestEnded =>
          \A k \in DOMAIN requests :
              /\ (requests[k].verify /\ TransientFailure(requests[k])
                    /\ requests[k].attempt < max_retries - 1)
                 => \E j \in DOMAIN requests :
                        j > k /\ requests[j].verify
                        /\ requests[j].attempt = requests[k].attempt + 1
              /\ (requests[k].outcome = "response" /\ requests[k].status >= 400
                    /\ requests[k].status < 500)
                 => k = Len(requests)

IsRuleEntry(e) == e.platform \in PlatformNames

CatalogIndex(p) == IndexOfKey(get_platform_signatures, p, 1)

C6_AllRulesOnceGives100 ==
    Detected =>
        \A k \in DOMAIN get_platform_signatures :
            LET platform == get_platform_signatures[k].platform
                checks == get_platform_signatures[k].checks
            IN  ((\A j \in DOMAIN checks : soup[checks[j]] = 1)
                    /\ BonusMatches(platform) = 0)
                => Present(platform, 1000)

\* The spec's header signal for a cataloged platform: a header whose name
\* carries the platform's prefix.
HeaderSignal(p) == ("x-" \o Lower(p) \o "-cache") \in headers.others

\* C7: a cataloged platform whose confidence is below 30 is absent from the
\* report unless a header names it, and then it is present with confidence
\* 100; a platform whose confidence is at least 30 is present.
C7_InclusionThresholdAndPromotion ==
    Detected =>
        \A k \in DOMAIN get_platform_signatures :
            LET platform == get_platform_signatures[k].platform
                checks == get_platform_signatures[k].checks
                confidence ==
                    get_confidence_score(TailMatches(platform, checks), Len(checks))
            IN  IF AtLeast(confidence, 30) THEN InReport(platform)
                ELSE IF HeaderSignal(platform) THEN Present(platform, 1000)
                ELSE ~InReport(platform)

\* C8: a header that names a technology outside the catalog gives the report
\* an entry of confidence 100 under the technology's bare name.
C8_HeaderTechnologyByBareName ==
    Detected =>
        /\ headers.XPoweredBy = "PHP/8.1" => Present("PHP", 1000)
        /\ headers.Server = "Nginx" => Present("Nginx", 1000)

C10_NeverEmpty ==
    /\ Done => Len(report) >= 1
    /\ (Detected /\ detected_platforms = <<>> /\ headers = NoHeaders)
          => report = NoPlatformDetected

\* C10's case: the loop ran over a document, included nothing, and the
\* report is out.
C10_Witness ==
    /\ Detected
    /\ detected_platforms = <<>>
    /\ headers = NoHeaders
    /\ soup = EmptySoup
    /\ report = NoPlatformDetected

\* C13: every response safe_request returns has a content type holding
\* text/html, the one of the request made with verification disabled
\* included; a response of another content type ends as a fetch failure and
\* never reaches the parse or the platform loop.
C13_OnlyHtmlIsReturned ==
    /\ response # NoResponse => response.html
    /\ (\E k \in DOMAIN requests :
            requests[k].outcome = "response" /\ ~requests[k].html)
          => /\ pc \notin {"returned", "checks", "score"}
             /\ Done => raised # "none"

\* detect_platform returned after a fetch and a parse that succeeded.
ParsedAndDone ==
    /\ Done
    /\ Truthy(response)
    /\ report \notin {<<Entry("Error: Could not parse website content", 0)>>,
                      <<Entry("Error: No content found", 0)>>}

CaughtAt(where) == \E k \in DOMAIN caught : caught[k].where = where

\* C12: after a successful fetch, an exception raised while one platform's
\* rules are evaluated, or inside one extractor, is caught and passed over:
\* every platform of the catalog still has its turn, the report is no error
\* report, and it holds every other platform that passes the inclusion test.
C12_ExceptionsAreCaughtAndSkipped ==
    ParsedAndDone =>
        /\ \A k \in DOMAIN admin_paths :
              IsException(AdminProbe(admin_paths[k]))
                  => CaughtAt("admin_path_" \o admin_paths[k])
        /\ i > Len(get_platform_signatures)
        /\ \A k \in DOMAIN report : report[k].platform \notin ErrorLabels
        /\ \A k \in DOMAIN get_platform_signatures :
              LET platform == get_platform_signatures[k].platform
                  checks == get_platform_signatures[k].checks
                  matches == LoopMatches(platform, checks)
              IN  IF LoopRaises(platform, checks) # "none"
                  THEN CaughtAt(platform)
                  ELSE (matches > 0
                          /\ AtLeast(get_confidence_score(matches, Len(checks)), 30))
                       => InReport(platform)

\* C12's case: the four admin-path probes raised inside get_additional_checks,
\* each was passed over, and the loop went through the whole catalog.
C12_Witness ==
    /\ ParsedAndDone
    /\ Len(caught) = Len(admin_paths)
    /\ caught[1] = Caught("admin_path_/wp-admin", "NameError")
    /\ i > Len(get_platform_signatures)
    /\ report = NoPlatformDetected

\* urlparse(url).hostname for the characters of the model: the netloc up to
\* its port.
Host(netloc) ==
    LET colon == Find(netloc, {":"})
    IN  IF colon = 0 THEN netloc ELSE SubSeq(netloc, 1, colon - 1)

Cleaned == pc = "cleaned"

\* The host of the input once trimmed and given its scheme.
InputHost == Host(urlparse(RemoveTrailingSlashes(AddScheme(strip(text_input)))).netloc)

InvalidInput ==
    \/ text_input = <<>>
    \/ ~HasDot(InputHost)
    \/ Len(LastLabel(InputHost)) < 2

\* C11: clean_url returns None for an empty input and for a host without a
\* dot or whose last dot-separated label has fewer than 2 characters; for
\* every other input it returns a string that starts with a scheme (https://
\* where the input had none), has no whitespace at either end, and does not
\* end with a slash.
C11_CleanUrlValidatesAndNormalizes ==
    Cleaned =>
        IF InvalidInput
        THEN cleaned_url = None
        ELSE /\ cleaned_url # None
             /\ startswith(cleaned_url, Http) \/ startswith(cleaned_url, Https)
             /\ ~(startswith(strip(text_input), Http) \/ startswith(strip(text_input), Https))
                    => startswith(cleaned_url, Https)
             /\ cleaned_url[1] \notin Whitespace
             /\ cleaned_url[Len(cleaned_url)] \notin Whitespace
             /\ cleaned_url[Len(cleaned_url)] # "/"

====
